---- MODULE Spec2Model ----
(***************************************************************************)
(* Model of @coldagency/spintax (src/src/index.ts).                         *)
(*                                                                         *)
(* A string is a sequence of one-character strings, indexed from 0 as in   *)
(* the source (At, Slice).  A call that returns v is the record Ok(v); a    *)
(* call that ends by an exception is Raise(e): "TypeError" for a property   *)
(* read on undefined, "RangeError" for a call stack that is exhausted.      *)
(***************************************************************************)
EXTENDS Integers, Sequences, FiniteSets, TLC

\* Longest template typed character by character (specification Spec).
MaxLen == 7

\* Most pieces a template is assembled from (specification SpecPieces).
MaxPieces == 3

\* Call frames the recursive functions may nest before the engine raises
\* RangeError; far above what any template of the bounded sets needs.
StackLimit == 12

\* The characters templates are typed from.
Chars == {"{", "}", "|", "a"}

\* The counts the callers pass.
Counts == {-1, 0, 1, 2}

\* The pieces templates are assembled from: {|a}  {a|b}  {b|{|a}}  {}  {  b  {a|a}
Pieces ==
  { <<"{", "|", "a", "}">>,
    <<"{", "a", "|", "b", "}">>,
    <<"{", "b", "|", "{", "|", "a", "}", "}">>,
    <<"{", "}">>,
    <<"{">>,
    <<"b">>,
    <<"{", "a", "|", "a", "}">> }

RECURSIVE PieceTexts(_)
PieceTexts(k) ==
  IF k = 0 THEN {<<>>}
  ELSE LET shorter == PieceTexts(k - 1)
       IN shorter \cup {t \o p : t \in shorter, p \in Pieces}

MAX_ALL == 1000
MAX_SEQUENTIAL == 1000
MAX_RANDOM == 100
ATTEMPTS_PER_RESULT == 10

Ok(v) == [err |-> "none", val |-> v]
Raise(e) == [err |-> e, val |-> <<>>]

Min(a, b) == IF a < b THEN a ELSE b
Max(a, b) == IF a > b THEN a ELSE b

\* text[i], i counted from 0
At(text, i) == text[i + 1]

\* text.slice(start, end) for 0 <= start, 0 <= end
Slice(text, start, end) == SubSeq(text, start + 1, Min(end, Len(text)))

\* array.slice(0, end): a negative end counts from the end of the array
SliceTo(array, end) ==
  IF end < 0 THEN SubSeq(array, 1, Max(Len(array) + end, 0))
  ELSE SubSeq(array, 1, Min(end, Len(array)))

\* text.indexOf(ch, from): the first position >= from holding ch, or -1
RECURSIVE IndexOf(_, _, _)
IndexOf(text, ch, from) ==
  IF ~(from < Len(text)) THEN -1
  ELSE IF At(text, from) = ch THEN from
  ELSE IndexOf(text, ch, from + 1)

\* text.includes(ch)
Includes(text, ch) == \E i \in 1 .. Len(text) : text[i] = ch

(***************************************************************************)
(* splitOptions: the loop of lines 82-97, then the final push of 99-101.   *)
(***************************************************************************)
RECURSIVE SplitLoop(_, _, _, _, _)
SplitLoop(content, i, options, current, depth) ==
  IF ~(i < Len(content)) THEN
    IF current # <<>> THEN Append(options, current) ELSE options
  ELSE
    LET char == At(content, i) IN
    IF char = "{" THEN
      SplitLoop(content, i + 1, options, Append(current, char), depth + 1)
    ELSE IF char = "}" THEN
      SplitLoop(content, i + 1, options, Append(current, char), depth - 1)
    ELSE IF char = "|" /\ depth = 0 THEN
      SplitLoop(content, i + 1, Append(options, current), <<>>, depth)
    ELSE
      SplitLoop(content, i + 1, options, Append(current, char), depth)

splitOptions(content) == SplitLoop(content, 0, <<>>, <<>>, 0)

(***************************************************************************)
(* parseSpintax.  MatchBrace is the inner while loop (lines 51-55); it      *)
(* returns closeBrace and depth as the loop leaves them.  ParseLoop is the  *)
(* test of the outer loop, ParseAt its body once openBrace is known (lines *)
(* 40-47), ParseGroup its body once the inner loop has run (lines 56-68).  *)
(* Each segment is recorded with the line that pushed it: "literal" (41,   *)
(* 46), "fallback" (59) or "group" (66).                                   *)
(***************************************************************************)
\* MatchBrace as it would be if line 52 were missing: an inner "{" is not counted
RECURSIVE MatchBraceFlat(_, _, _)
MatchBraceFlat(text, closeBrace, depth) ==
  IF closeBrace < Len(text) /\ depth > 0 THEN
    MatchBraceFlat(text, closeBrace + 1,
                   IF At(text, closeBrace) = "}" THEN depth - 1 ELSE depth)
  ELSE [closeBrace |-> closeBrace, depth |-> depth]

RECURSIVE MatchBrace(_, _, _)
MatchBrace(text, closeBrace, depth) ==
  IF closeBrace < Len(text) /\ depth > 0 THEN
    LET d1 == IF At(text, closeBrace) = "{" THEN depth + 1 ELSE depth
        d2 == IF At(text, closeBrace) = "}" THEN d1 - 1 ELSE d1
    IN MatchBrace(text, closeBrace + 1, d2)
  ELSE [closeBrace |-> closeBrace, depth |-> depth]

Pushed(options, line) == [options |-> options, pushed |-> line]

RECURSIVE ParseLoop(_, _, _)
RECURSIVE ParseAt(_, _, _, _)
RECURSIVE ParseGroup(_, _, _, _)

ParseGroup(text, openBrace, scan, segments) ==
  IF scan.depth # 0 THEN
    ParseLoop(text, openBrace + 1,
              Append(segments, Pushed(<<Slice(text, openBrace, openBrace + 1)>>, "fallback")))
  ELSE
    ParseLoop(text, (scan.closeBrace - 1) + 1,
              Append(segments,
                     Pushed(splitOptions(Slice(text, openBrace + 1, scan.closeBrace - 1)),
                            "group")))

ParseAt(text, currentIndex, openBrace, segments) ==
  IF openBrace = -1 THEN
    Append(segments, Pushed(<<Slice(text, currentIndex, Len(text))>>, "literal"))
  ELSE
    ParseGroup(text, openBrace, MatchBrace(text, openBrace + 1, 1),
               IF openBrace > currentIndex
               THEN Append(segments, Pushed(<<Slice(text, currentIndex, openBrace)>>, "literal"))
               ELSE segments)

ParseLoop(text, currentIndex, segments) ==
  IF ~(currentIndex < Len(text)) THEN segments
  ELSE ParseAt(text, currentIndex, IndexOf(text, "{", currentIndex), segments)

ParseTrace(text) == ParseLoop(text, 0, <<>>)

Options(trace) == [i \in 1 .. Len(trace) |-> trace[i].options]

parseSpintax(text) == Options(ParseTrace(text))

(***************************************************************************)
(* validate: the loop of lines 295-299 and the final test of line 300.     *)
(***************************************************************************)
RECURSIVE ValidateLoop(_, _, _)
ValidateLoop(text, i, depth) ==
  IF ~(i < Len(text)) THEN depth = 0
  ELSE
    LET d1 == IF At(text, i) = "{" THEN depth + 1 ELSE depth
        d2 == IF At(text, i) = "}" THEN d1 - 1 ELSE d1
    IN IF d2 < 0 THEN FALSE ELSE ValidateLoop(text, i + 1, d2)

\* validate as it would be if line 298 were missing: only the final depth counts
validateFinalDepthOnly(text) ==
  Cardinality({i \in 1 .. Len(text) : text[i] = "{"})
    = Cardinality({i \in 1 .. Len(text) : text[i] = "}"})

validate(text) == ValidateLoop(text, 0, 0)

(***************************************************************************)
(* The recursive functions take the number of call frames still free.  A   *)
(* call made with none left raises RangeError: this is how a recursion     *)
(* that never reaches its base case ends.                                  *)
(***************************************************************************)
RECURSIVE generateAllCombinations(_, _)
RECURSIVE processNestedSpintax(_, _)
RECURSIVE countCombinations(_, _)
RECURSIVE generateRandomVariations(_, _, _)

\* for (const restCombo of restCombinations) results.push(processed + restCombo)
RECURSIVE ForRestCombo(_, _, _, _)
ForRestCombo(processed, restCombinations, k, results) ==
  IF k > Len(restCombinations) THEN results
  ELSE ForRestCombo(processed, restCombinations, k + 1,
                    Append(results, processed \o restCombinations[k]))

\* for (const processed of processedOptions) ...
RECURSIVE ForProcessed(_, _, _, _)
ForProcessed(processedOptions, restCombinations, j, results) ==
  IF j > Len(processedOptions) THEN results
  ELSE ForProcessed(processedOptions, restCombinations, j + 1,
                    ForRestCombo(processedOptions[j], restCombinations, 1, results))

\* for (const option of first) ...: ForOption is the test of the loop,
\* ForOptionBody its body once processNestedSpintax(option) is known
RECURSIVE ForOption(_, _, _, _, _)

ForOptionBody(first, restCombinations, i, results, stack, processedOptions) ==
  IF processedOptions.err # "none" THEN processedOptions
  ELSE ForOption(first, restCombinations, i + 1,
                 ForProcessed(processedOptions.val, restCombinations, 1, results), stack)

ForOption(first, restCombinations, i, results, stack) ==
  IF i > Len(first) THEN Ok(results)
  ELSE ForOptionBody(first, restCombinations, i, results, stack,
                     processNestedSpintax(first[i], stack - 1))

\* CombineWithRest as it would be with the loops exchanged: the rest of the
\* template in the outer loop, the options of the first segment in the inner
CombineRestOuter(first, restCombinations, stack) ==
  IF restCombinations.err # "none" THEN restCombinations
  ELSE LET own == ForOption(first, << <<>> >>, 1, <<>>, stack) IN
       IF own.err # "none" THEN own
       ELSE Ok([index \in 1 .. (Len(own.val) * Len(restCombinations.val)) |->
                 own.val[((index - 1) % Len(own.val)) + 1]
                   \o restCombinations.val[((index - 1) \div Len(own.val)) + 1]])

\* lines 126-136, restCombinations being known
CombineWithRest(first, restCombinations, stack) ==
  IF restCombinations.err # "none" THEN restCombinations
  ELSE ForOption(first, restCombinations.val, 1, <<>>, stack)

generateAllCombinations(segments, stack) ==
  IF stack <= 0 THEN Raise("RangeError")
  ELSE IF Len(segments) = 0 THEN Ok(<< <<>> >>)
  ELSE CombineWithRest(Head(segments),
                       generateAllCombinations(Tail(segments), stack - 1), stack)

processNestedSpintax(text, stack) ==
  IF stack <= 0 THEN Raise("RangeError")
  ELSE IF ~Includes(text, "{") THEN Ok(<<text>>)
  ELSE generateAllCombinations(parseSpintax(text), stack - 1)

\* all.slice(0, count), all being the result of a call
SliceResult(all, count) == IF all.err # "none" THEN all ELSE Ok(SliceTo(all.val, count))

generateSequentialVariations(segments, count, stack) ==
  SliceResult(generateAllCombinations(segments, stack - 1), count)

(***************************************************************************)
(* countCombinations: the inner loop over a segment's options (189-196)    *)
(* and the outer loop over the segments (187-198).  AddNested is line 192  *)
(* and MultiplyTotal line 197, the value they use being known.             *)
(***************************************************************************)
RECURSIVE CountOptions(_, _, _, _)

AddNested(segment, i, segmentTotal, stack, nested) ==
  IF nested.err # "none" THEN nested
  ELSE CountOptions(segment, i + 1, segmentTotal + nested.val, stack)

CountOptions(segment, i, segmentTotal, stack) ==
  IF i > Len(segment) THEN Ok(segmentTotal)
  ELSE IF Includes(segment[i], "{") THEN
    AddNested(segment, i, segmentTotal, stack,
              countCombinations(parseSpintax(segment[i]), stack - 1))
  ELSE CountOptions(segment, i + 1, segmentTotal + 1, stack)

RECURSIVE CountSegments(_, _, _, _)

MultiplyTotal(segments, s, total, stack, segmentTotal) ==
  IF segmentTotal.err # "none" THEN segmentTotal
  ELSE CountSegments(segments, s + 1, total * segmentTotal.val, stack)

CountSegments(segments, s, total, stack) ==
  IF s > Len(segments) THEN Ok(total)
  ELSE MultiplyTotal(segments, s, total, stack, CountOptions(segments[s], 1, 0, stack))

countCombinations(segments, stack) ==
  IF stack <= 0 THEN Raise("RangeError")
  ELSE CountSegments(segments, 1, 1, stack)

(***************************************************************************)
(* generateRandomVariations.  Math.random() is a free choice of the index; *)
(* an operator returns the set of outcomes the choices allow.              *)
(*                                                                         *)
(* PickOption: lines 153-160 for one segment and one randomIndex.  A       *)
(* segment without alternatives yields option = undefined, and             *)
(* option.includes raises TypeError.                                       *)
(***************************************************************************)
PickOption(segment, randomIndex, stack) ==
  IF ~(randomIndex < Len(segment)) THEN {Raise("TypeError")}
  ELSE
    LET option == At(segment, randomIndex) IN
    IF Includes(option, "{") THEN
      LET nestedRuns == generateRandomVariations(parseSpintax(option), 1, stack - 1) IN
      { IF run.err # "none" THEN run
        ELSE IF Len(run.val) > 0 /\ run.val[1] # <<>> THEN Ok(run.val[1])
        ELSE Ok(option) : run \in nestedRuns }
    ELSE {Ok(option)}

\* Math.floor(Math.random() * segment.length)
RandomIndexes(segment) == IF Len(segment) = 0 THEN {0} ELSE 0 .. (Len(segment) - 1)

\* for (const segment of segments) ... variation += option  (lines 150-163)
RECURSIVE BuildVariation(_, _, _, _)
BuildVariation(segments, s, variation, stack) ==
  IF s > Len(segments) THEN {Ok(variation)}
  ELSE
    UNION { UNION { IF picked.err # "none" THEN {picked}
                    ELSE BuildVariation(segments, s + 1, variation \o picked.val, stack)
                    : picked \in PickOption(segments[s], randomIndex, stack) }
            : randomIndex \in RandomIndexes(segments[s]) }

\* the while loop of lines 148-169, from the state (results, seen, attempts)
RECURSIVE SampleLoop(_, _, _, _, _, _)
SampleLoop(segments, count, results, seen, attempts, stack) ==
  IF Len(results) < count /\ attempts < count * ATTEMPTS_PER_RESULT THEN
    UNION { IF built.err # "none" THEN {built}
            ELSE IF built.val \notin seen THEN
              SampleLoop(segments, count, Append(results, built.val),
                         seen \cup {built.val}, attempts + 1, stack)
            ELSE SampleLoop(segments, count, results, seen, attempts + 1, stack)
            : built \in BuildVariation(segments, 1, <<>>, stack) }
  ELSE {Ok(results)}

generateRandomVariations(segments, count, stack) ==
  IF stack <= 0 THEN {Raise("RangeError")}
  ELSE SampleLoop(segments, count, <<>>, {}, 0, stack)

(***************************************************************************)
(* The exported functions.  A quotient is kept as the pair of its          *)
(* numerator and denominator.                                              *)
(***************************************************************************)
RECURSIVE SumLengths(_, _)
SumLengths(segments, s) ==
  IF s > Len(segments) THEN 0 ELSE Len(segments[s]) + SumLengths(segments, s + 1)

SpinElements(segments) == Cardinality({s \in 1 .. Len(segments) : Len(segments[s]) > 1})

\* the return statement of analyze (lines 216-220), countCombinations having run
AnalyzeResult(segments, totalCombinations) ==
  IF totalCombinations.err # "none" THEN totalCombinations
  ELSE Ok([totalCombinations |-> totalCombinations.val,
           spinElements |-> SpinElements(segments),
           averageOptionsPerSpin |->
             IF SpinElements(segments) > 0
             THEN [num |-> SumLengths(segments, 1), den |-> Len(segments)]
             ELSE [num |-> 0, den |-> 1]])

AnalyzeSegments(segments) ==
  AnalyzeResult(segments, countCombinations(segments, StackLimit))

analyze(text) == AnalyzeSegments(parseSpintax(text))

\* segments.filter(s => s.length > 1)
RECURSIVE FilterSpin(_, _)
FilterSpin(segments, s) ==
  IF s > Len(segments) THEN <<>>
  ELSE IF Len(segments[s]) > 1 THEN <<segments[s]>> \o FilterSpin(segments, s + 1)
  ELSE FilterSpin(segments, s + 1)

extractOptions(text) == FilterSpin(parseSpintax(text), 1)

\* the return statement of generate (lines 274-280)
GenerateResult(variations, stats) ==
  Ok([variations |-> variations,
      stats |-> [totalCombinations |-> stats.totalCombinations,
                 spinElements |-> stats.spinElements,
                 averageOptionsPerSpin |-> stats.averageOptionsPerSpin,
                 generatedCount |-> Len(variations)]])

\* the return statement of generate, variations being the result of a call
GenerateReturn(variations, stats) ==
  IF variations.err # "none" THEN variations ELSE GenerateResult(variations.val, stats)

\* case 'all' (lines 261-264), analyze having run
GenerateAllCase(segments, stats) ==
  IF stats.err # "none" THEN stats
  ELSE GenerateReturn(SliceResult(generateAllCombinations(segments, StackLimit),
                                  Min(stats.val.totalCombinations, MAX_ALL)),
                      stats.val)

\* generate with mode 'all'
generateAll(text) == GenerateAllCase(parseSpintax(text), analyze(text))

\* case 'sequential' (lines 265-267), analyze having run
GenerateSequentialCase(segments, stats, count) ==
  IF stats.err # "none" THEN stats
  ELSE GenerateReturn(generateSequentialVariations(segments, Min(count, MAX_SEQUENTIAL),
                                                   StackLimit),
                      stats.val)

\* generate with mode 'sequential'
generateSequential(text, count) ==
  GenerateSequentialCase(parseSpintax(text), analyze(text), count)

(***************************************************************************)
(* State.  text is the caller's template.  A call is one action, except a  *)
(* call that samples: it enters the loop of generateRandomVariations       *)
(* (pc = "sampling"), every iteration of the loop is one step, and the     *)
(* return is one step.                                                     *)
(***************************************************************************)
VARIABLES text, pc, op, arg, segments, count, results, seen, attempts, stats, res

vars == <<text, pc, op, arg, segments, count, results, seen, attempts, stats, res>>

NoStats == [totalCombinations |-> 0, spinElements |-> 0,
            averageOptionsPerSpin |-> [num |-> 0, den |-> 1]]

Idle ==
  /\ pc = "input" /\ op = "none" /\ arg = 0
  /\ segments = <<>> /\ count = 0 /\ results = <<>> /\ seen = {} /\ attempts = 0
  /\ stats = NoStats /\ res = Ok(<<>>)

Init == text = <<>> /\ Idle

sampler == <<segments, count, results, seen, attempts, stats>>

TypeChar(c) ==
  /\ pc = "input" /\ Len(text) < MaxLen
  /\ text' = Append(text, c)
  /\ UNCHANGED <<pc, op, arg, res, sampler>>

\* a call that returns or raises at once
Return(name, n, r) ==
  /\ pc = "input"
  /\ pc' = "done" /\ op' = name /\ arg' = n /\ res' = r
  /\ UNCHANGED <<text, sampler>>

CallValidate == Return("validate", 0, Ok(validate(text)))

CallAnalyze == Return("analyze", 0, analyze(text))

CallExtractOptions == Return("extractOptions", 0, Ok(extractOptions(text)))

CallGenerateAll == Return("generateAll", 0, generateAll(text))

CallGenerateSequential(n) == Return("generateSequential", n, generateSequential(text, n))

\* enter generateRandomVariations(segs, n): lines 143-146
EnterSampler(name, n, segs, cnt, st) ==
  /\ pc = "input"
  /\ pc' = "sampling" /\ op' = name /\ arg' = n
  /\ segments' = segs /\ count' = cnt /\ stats' = st
  /\ results' = <<>> /\ seen' = {} /\ attempts' = 0
  /\ UNCHANGED <<text, res>>

CallSpin == EnterSampler("spin", 1, parseSpintax(text), 1, NoStats)

\* case 'random' (lines 268-271), analyze having run
GenerateRandomCase(n, st) ==
  IF st.err # "none" THEN Return("generateRandom", n, st)
  ELSE EnterSampler("generateRandom", n, parseSpintax(text), Min(n, MAX_RANDOM), st.val)

CallGenerateRandom(n) == pc = "input" /\ GenerateRandomCase(n, analyze(text))

\* one iteration of the while loop (lines 148-169)
SampleAttempt ==
  /\ pc = "sampling"
  /\ Len(results) < count /\ attempts < count * ATTEMPTS_PER_RESULT
  /\ \E built \in BuildVariation(segments, 1, <<>>, StackLimit) :
       IF built.err # "none" THEN
         /\ pc' = "done" /\ res' = built /\ attempts' = attempts + 1
         /\ UNCHANGED <<text, op, arg, segments, count, results, seen, stats>>
       ELSE
         /\ attempts' = attempts + 1
         /\ IF built.val \notin seen
            THEN seen' = seen \cup {built.val} /\ results' = Append(results, built.val)
            ELSE UNCHANGED <<seen, results>>
         /\ UNCHANGED <<text, pc, op, arg, segments, count, stats, res>>

\* the loop is left: generateRandomVariations returns to its caller
SampleReturn ==
  /\ pc = "sampling"
  /\ ~(Len(results) < count /\ attempts < count * ATTEMPTS_PER_RESULT)
  /\ pc' = "done"
  /\ res' = IF op = "spin"
            THEN Ok(IF Len(results) > 0 /\ results[1] # <<>> THEN results[1] ELSE text)
            ELSE IF op = "generateRandom" THEN GenerateResult(results, stats)
            ELSE Ok(results)
  /\ UNCHANGED <<text, op, arg, sampler>>

Next ==
  \/ \E c \in Chars : TypeChar(c)
  \/ CallValidate
  \/ CallAnalyze
  \/ CallExtractOptions
  \/ CallGenerateAll
  \/ \E n \in Counts : CallGenerateSequential(n)
  \/ CallSpin
  \/ \E n \in Counts : CallGenerateRandom(n)
  \/ SampleAttempt
  \/ SampleReturn

Spec == Init /\ [][Next]_vars

(***************************************************************************)
(* SpecPieces: the internal functions applied to the parse of a template   *)
(* assembled from Pieces.                                                  *)
(***************************************************************************)
InitPieces == text \in PieceTexts(MaxPieces) /\ Idle

CallGenerateAllCombinations ==
  Return("generateAllCombinations", 0,
         generateAllCombinations(parseSpintax(text), StackLimit))

CallCountCombinations ==
  Return("countCombinations", 0, countCombinations(parseSpintax(text), StackLimit))

CallGenerateRandomVariations(n) ==
  EnterSampler("generateRandomVariations", n, parseSpintax(text), n, NoStats)

NextPieces ==
  \/ CallGenerateAllCombinations
  \/ CallCountCombinations
  \/ \E n \in Counts : CallGenerateRandomVariations(n)
  \/ SampleAttempt
  \/ SampleReturn

SpecPieces == InitPieces /\ [][NextPieces]_vars

(***************************************************************************)
(* Properties.                                                             *)
(***************************************************************************)
Returned(name) == pc = "done" /\ op = name
HasBrace(s) == Includes(s, "{") \/ Includes(s, "}")
Distinct(list) == \A i, j \in 1 .. Len(list) : list[i] = list[j] => i = j
Member(x, list) == \E i \in 1 .. Len(list) : list[i] = x
FullExpansion == generateAllCombinations(parseSpintax(text), StackLimit)

\* C1: spin, generate (every mode) and analyze return a result for every
\* input string and never raise, an unmatched "{" being literal text.
C1_NeverRaises ==
  (pc = "done" /\ op \in {"spin", "analyze", "generateAll", "generateSequential",
                          "generateRandom"})
    => res.err = "none"

\* C2: for every template, countCombinations of the parse is the length of
\* generateAllCombinations of the parse.
C2_CountIsExpansionLength ==
  Returned("analyze") =>
    /\ res.err = "none"
    /\ FullExpansion.err = "none"
    /\ res.val.totalCombinations = Len(FullExpansion.val)

\* C3: for a non-empty template with balanced braces, the string spin
\* returns is a member of the full expansion, whatever the random choices.
C3_SpinInExpansion ==
  (Returned("spin") /\ res.err = "none" /\ text # <<>> /\ validate(text))
    => FullExpansion.err = "none" /\ Member(res.val, FullExpansion.val)

\* C4: generate in mode 'all' returns the full expansion (its first 1000
\* entries when it is longer), and the returned list has no duplicates.
C4_AllCompleteNoDuplicates ==
  (Returned("generateAll") /\ res.err = "none")
    => /\ FullExpansion.err = "none"
       /\ res.val.variations =
            SubSeq(FullExpansion.val, 1, Min(MAX_ALL, Len(FullExpansion.val)))
       /\ Distinct(res.val.variations)

\* C5: generate in mode 'sequential' with count N (positive, zero or
\* negative, above 1000 taken as 1000) returns the first N entries of the
\* full expansion, so never more than N entries.
C5_SequentialFirstN ==
  (Returned("generateSequential") /\ res.err = "none")
    => LET n == Max(Min(arg, MAX_SEQUENTIAL), 0) IN
       /\ FullExpansion.err = "none"
       /\ res.val.variations = SubSeq(FullExpansion.val, 1, Min(n, Len(FullExpansion.val)))
       /\ Len(res.val.variations) <= n

Opens(k) == Cardinality({i \in 1 .. k : text[i] = "{"})
Closes(k) == Cardinality({i \in 1 .. k : text[i] = "}"})

\* C6: validate returns true exactly when no prefix of the text holds more
\* "}" than "{" and the whole text holds as many "{" as "}".
C6_ValidateIffBalanced ==
  Returned("validate") =>
    (res.val = TRUE) <=>
      /\ \A k \in 0 .. Len(text) : Closes(k) <= Opens(k)
      /\ Opens(Len(text)) = Closes(Len(text))

\* validate has rejected a text whose counts of "{" and "}" agree but which
\* closes before it opens
C6_Witness ==
  /\ Returned("validate") /\ res.val = FALSE
  /\ Len(text) > 0 /\ Opens(Len(text)) = Closes(Len(text))

\* C7: generateRandomVariations(segments, N) returns, after at most 10*N
\* candidates, a list of at most max(N, 0) pairwise distinct strings, also
\* when N <= 0, when a segment has no alternative, and when the template has
\* fewer than N distinct expansions.
C7_SamplerReturnsBounded ==
  Returned("generateRandomVariations") =>
    /\ res.err = "none"
    /\ attempts <= Max(ATTEMPTS_PER_RESULT * arg, 0)
    /\ Len(res.val) <= Max(arg, 0)
    /\ Distinct(res.val)

TotalAlternatives == SumLengths(parseSpintax(text), 1)
SegmentCount == Len(parseSpintax(text))

\* C8 as stated: whenever the parse has a segment, averageOptionsPerSpin is
\* the number of alternatives of all segments divided by the number of
\* segments (so plain text gives 1).
C8_AverageOverAllSegments ==
  (Returned("analyze") /\ res.err = "none" /\ SegmentCount >= 1)
    => res.val.averageOptionsPerSpin.num * SegmentCount
         = TotalAlternatives * res.val.averageOptionsPerSpin.den

\* the expansions of one segment: those of its options, one option after the other
RECURSIVE SegmentExpansions(_, _)
SegmentExpansions(segment, i) ==
  IF i > Len(segment) THEN <<>>
  ELSE processNestedSpintax(segment[i], StackLimit).val \o SegmentExpansions(segment, i + 1)

ExpansionsBySegment ==
  LET segs == parseSpintax(text)
  IN [s \in 1 .. Len(segs) |-> SegmentExpansions(segs[s], 1)]

\* the number of combinations of the segments after segment s
RECURSIVE Weight(_, _)
Weight(E, s) == IF s >= Len(E) THEN 1 ELSE Len(E[s + 1]) * Weight(E, s + 1)

\* the combination whose mixed-radix digits, leftmost segment first, spell index
RECURSIVE Entry(_, _, _)
Entry(E, s, index) ==
  IF s > Len(E) THEN <<>>
  ELSE E[s][((index \div Weight(E, s)) % Len(E[s])) + 1] \o Entry(E, s + 1, index)

\* C9: generateAllCombinations lists the expansions in mixed-radix order:
\* entry number index is built from the digits of index, the leftmost
\* segment being the most significant and the rightmost varying fastest.
C9_MixedRadixOrder ==
  (Returned("generateAllCombinations") /\ res.err = "none")
    => LET E == ExpansionsBySegment IN
       /\ Len(res.val) = Weight(E, 0)
       /\ \A index \in 0 .. (Weight(E, 0) - 1) : res.val[index + 1] = Entry(E, 1, index)

\* an expansion of two or more choice points, one of them with a nested group
C9_Witness ==
  /\ Returned("generateAllCombinations") /\ res.err = "none"
  /\ LET E == ExpansionsBySegment IN
     /\ Len(E) >= 2 /\ Len(E[1]) >= 3 /\ Len(E[2]) >= 2
     /\ \E o \in 1 .. Len(parseSpintax(text)[1]) : Includes(parseSpintax(text)[1][o], "{")
  /\ Len(res.val) >= 6

\* every parse of a nested option, at every level, is of a shorter string
RECURSIVE NestedParsesShrink(_)
NestedParsesShrink(t) ==
  LET segs == parseSpintax(t) IN
  \A s \in 1 .. Len(segs) : \A o \in 1 .. Len(segs[s]) :
    Includes(segs[s][o], "{") =>
      Len(segs[s][o]) < Len(t) /\ NestedParsesShrink(segs[s][o])

\* C10: on a text validate accepts, parseSpintax never takes the fallback of
\* an unclosed brace and leaves no brace outside a group, every nested parse
\* is of a strictly shorter string, analyze and generate in mode 'all'
\* return, and no string of the full expansion holds a brace.
C10_ValidTextsExpandCleanly ==
  validate(text) =>
    /\ \A s \in 1 .. Len(ParseTrace(text)) :
         LET entry == ParseTrace(text)[s] IN
         /\ entry.pushed # "fallback"
         /\ entry.pushed = "literal" => ~HasBrace(entry.options[1])
    /\ NestedParsesShrink(text)
    /\ Returned("analyze") => res.err = "none"
    /\ Returned("generateAll") =>
         /\ res.err = "none"
         /\ \A v \in 1 .. Len(res.val.variations) : ~HasBrace(res.val.variations[v])

\* generate in mode 'all' has expanded a valid text with a nested group of
\* two alternatives
C10_Witness ==
  /\ Returned("generateAll") /\ validate(text) /\ res.err = "none"
  /\ \E s \in 1 .. SegmentCount : \E o \in 1 .. Len(parseSpintax(text)[s]) :
       /\ Includes(parseSpintax(text)[s][o], "{")
       /\ Len(processNestedSpintax(parseSpintax(text)[s][o], StackLimit).val) >= 2
  /\ Len(res.val.variations) >= 2
====
